---- MODULE Spec2Model ----
(***************************************************************************)
(* Model of the feature-extraction batch stages of the MOF pipeline:       *)
(*   03_extract_chemical_features.py     (process_cif, orchestrator)       *)
(*   04_extract_topological_features.py  (extract_topo_features, orch.)    *)
(*   05_extract_linker_metal_features.py (extract_linker_metal_features)   *)
(*                                                                         *)
(* Two specifications share the module:                                    *)
(*   Spec      the batch orchestrators driving per-ID tasks over a process *)
(*             pool, with the files they read and write;                   *)
(*   SpecTopo  one call of extract_topo_features over every structure with *)
(*             at most MaxAtoms atoms and MaxBonds reported bonds.         *)
(***************************************************************************)
EXTENDS Integers, Sequences, FiniteSets, TLC

(* ---------------- bounds ---------------- *)
MaxAtoms == 3
MaxBonds == 3
NumIds == 2
MaxRows == 2
MaxWorkers == 2

VARIABLES
  \* ---- one task of the topological stage (SpecTopo) ----
  t_file,        \* the structure file handed to extract_topo_features
  t_pc,          \* position inside extract_topo_features
  t_g,           \* g = nx.Graph(sg.graph)
  t_result,      \* the returned dict
  \* ---- a batch run (Spec) ----
  stage,         \* which script runs
  start_method,  \* multiprocessing start method of the platform
  n_workers,     \* N_WORKERS
  cif_folder,    \* MOFxDB_Project/cifs : [exists, files]
  subset_csv,    \* chemical_features.csv as the later stages find it
  dir_creatable, \* whether os.makedirs(output_dir) can succeed
  output_dir,    \* whether the output directory exists
  output_csv,    \* the stage's output table
  error_log,     \* the stage's error log file
  stderr,        \* log lines that went to the console instead
  pc,            \* position of the orchestrator
  mof_ids_to_process,
  tasks,         \* IDs submitted to the pool
  futures,       \* state of each task's future
  returned,      \* value held by a finished future
  results,       \* the orchestrator's results list
  errors         \* the chemical orchestrator's errors list

topo_vars == <<t_file, t_pc, t_g, t_result>>
env_vars == <<stage, start_method, n_workers, cif_folder, subset_csv, dir_creatable>>
run_vars == <<output_dir, output_csv, error_log, stderr, pc, mof_ids_to_process,
              tasks, futures, returned, results, errors>>
vars == <<topo_vars, env_vars, run_vars>>

(* ---------------- small arithmetic helpers ---------------- *)
Rat(n, d) == [num |-> n, den |-> d]

RECURSIVE SumOver(_, _)
SumOver(S, f) ==
  IF S = {} THEN 0
  ELSE LET x == CHOOSE y \in S : TRUE IN f[x] + SumOver(S \ {x}, f)

MaxOf(S) == CHOOSE x \in S : \A y \in S : y <= x
MinOf(S) == CHOOSE x \in S : \A y \in S : x <= y

(* ---------------- structures and graphs ---------------- *)
\* A structure file: absent, unparsable, one that kills the process reading
\* it, or a parsed structure of natoms sites with the bonds CrystalNN reports.
\* A bond <<i, i>> is a bond from site i to its own periodic image; a pair
\* that occurs twice is two bonds through different images.
NoStructure(k) == [kind |-> k, natoms |-> 0, bonds |-> <<>>]
Cif(n, b) == [kind |-> "cif", natoms |-> n, bonds |-> b]

RECURSIVE SeqsUpTo(_, _)
SeqsUpTo(S, n) ==
  IF n = 0 THEN {<<>>}
  ELSE LET P == SeqsUpTo(S, n - 1) IN
       P \cup {Append(s, x) : s \in {q \in P : Len(q) = n - 1}, x \in S}

Structures ==
  UNION {{Cif(n, b) : b \in SeqsUpTo((0..(n-1)) \X (0..(n-1)), MaxBonds)} : n \in 0..MaxAtoms}

\* g = nx.Graph(sg.graph): every site is a node; the dict-of-dict adjacency
\* of nx.Graph keeps one entry per neighbour, and a node may be its own
\* neighbour.
NxGraph(s) ==
  LET V == 0..(s.natoms - 1) IN
  [nodes |-> V,
   adj |-> [n \in V |-> {m \in V : \E k \in DOMAIN s.bonds :
                            s.bonds[k] = <<n, m>> \/ s.bonds[k] = <<m, n>>}]]

number_of_nodes(g) == Cardinality(g.nodes)

\* g.degree(): a self-loop counts twice.
Degree(g, n) == Cardinality(g.adj[n]) + (IF n \in g.adj[n] THEN 1 ELSE 0)

\* G.edges: one edge per unordered pair of neighbours, self-loops included.
Edges(g) == {{p[1], p[2]} : p \in {q \in g.nodes \X g.nodes : q[2] \in g.adj[q[1]]}}

number_of_edges(g) == Cardinality(Edges(g))

\* _plain_bfs / single_source_shortest_path_length: level by level.
RECURSIVE BfsLevels(_, _, _, _, _)
BfsLevels(g, frontier, seen, d, dist) ==
  IF frontier = {} THEN dist
  ELSE LET nxt == (UNION {g.adj[n] : n \in frontier}) \ seen
           dist2 == [n \in (DOMAIN dist) \cup nxt |->
                       IF n \in DOMAIN dist THEN dist[n] ELSE d + 1]
       IN BfsLevels(g, nxt, seen \cup nxt, d + 1, dist2)

shortest_path_length(g, src) == BfsLevels(g, {src}, {src}, 0, [n \in {src} |-> 0])

connected_component(g, n) == DOMAIN shortest_path_length(g, n)

connected_components(g) == {connected_component(g, n) : n \in g.nodes}

\* A connectivity test that only looks for isolated nodes.
is_connected_NoIsolatedNode(g) == \A n \in g.nodes : g.adj[n] # {} \/ number_of_nodes(g) = 1

\* nx.is_connected for a graph with at least one node (the null graph raises).
is_connected(g) ==
  LET a == CHOOSE n \in g.nodes : \A m \in g.nodes : n <= m
  IN Cardinality(connected_component(g, a)) = number_of_nodes(g)

eccentricity(g, v) ==
  LET sp == shortest_path_length(g, v) IN MaxOf({sp[n] : n \in DOMAIN sp})

diameter(g) == MaxOf({eccentricity(g, v) : v \in g.nodes})
radius(g) == MinOf({eccentricity(g, v) : v \in g.nodes})

average_shortest_path_length(g) ==
  LET n == number_of_nodes(g)
      tot == [v \in g.nodes |->
                LET sp == shortest_path_length(g, v) IN SumOver(DOMAIN sp, sp)]
  IN IF n = 1 THEN Rat(0, 1) ELSE Rat(SumOver(g.nodes, tot), n * (n - 1))

density(g) ==
  LET n == number_of_nodes(g)
      m == number_of_edges(g)
  IN IF m = 0 \/ n <= 1 THEN Rat(0, 1) ELSE Rat(2 * m, n * (n - 1))

RECURSIVE ProdOver(_, _)
ProdOver(S, f) ==
  IF S = {} THEN 1
  ELSE LET x == CHOOSE y \in S : TRUE IN f[x] * ProdOver(S \ {x}, f)

\* _triangles_and_degree_iter: neighbours without the node itself; every
\* triangle through v is counted twice.
TriNbrs(g, v) == g.adj[v] \ {v}

TriCount(g, v) ==
  LET vs == TriNbrs(g, v)
      c == [w \in vs |-> Cardinality(vs \cap TriNbrs(g, w))]
  IN SumOver(vs, c)

TriDegree(g, v) == Cardinality(TriNbrs(g, v))

\* np.mean(list(nx.clustering(g).values())) as one fraction: node v
\* contributes TriCount/(d*(d-1)), or 0 when it lies on no triangle.
clustering_mean(g) ==
  LET D == [v \in g.nodes |->
              IF TriCount(g, v) > 0 THEN TriDegree(g, v) * (TriDegree(g, v) - 1) ELSE 1]
      term == [v \in g.nodes |->
              (IF TriCount(g, v) > 0 THEN TriCount(g, v) ELSE 0) * ProdOver(g.nodes \ {v}, D)]
  IN Rat(SumOver(g.nodes, term), number_of_nodes(g) * ProdOver(g.nodes, D))

transitivity(g) ==
  LET t == [v \in g.nodes |-> TriCount(g, v)]
      c == [v \in g.nodes |-> TriDegree(g, v) * (TriDegree(g, v) - 1)]
  IN IF SumOver(g.nodes, t) = 0 THEN Rat(0, 1)
     ELSE Rat(SumOver(g.nodes, t), SumOver(g.nodes, c))

\* nx.degree_assortativity_coefficient: Pearson correlation of the degree
\* pairs node_degree_xy yields (both directions of an edge, a self-loop
\* once). A zero denominator stands for NaN.
degree_assortativity_coefficient(g) ==
  LET P == {q \in g.nodes \X g.nodes : q[2] \in g.adj[q[1]]}
      M == Cardinality(P)
      x == [q \in P |-> Degree(g, q[1])]
      xx == [q \in P |-> Degree(g, q[1]) * Degree(g, q[1])]
      xy == [q \in P |-> Degree(g, q[1]) * Degree(g, q[2])]
      Sx == SumOver(P, x)
  IN Rat(M * SumOver(P, xy) - Sx * Sx, M * SumOver(P, xx) - Sx * Sx)

\* Counter(dict(g.degree()).values()) and its total: the argument of the
\* Shannon entropy (log2 itself is not expressible over the integers).
degree_counts(g) ==
  LET degs == {Degree(g, n) : n \in g.nodes}
  IN [counts |-> [k \in degs |-> Cardinality({n \in g.nodes : Degree(g, n) = k})],
      total_nodes |-> number_of_nodes(g)]

Sentinel == Rat(-1, 1)

FailureRecord(mof_id) == [MOF_ID |-> mof_id]

\* Lines 30-68 for a graph on which nothing raises.
TopoMetrics(mof_id, g) ==
  LET n == number_of_nodes(g)
      deg == [v \in g.nodes |-> Degree(g, v)]
      comps == connected_components(g)
      conn == is_connected(g)
  IN [MOF_ID |-> mof_id,
      avg_node_connectivity |-> Rat(SumOver(g.nodes, deg), n),
      graph_density |-> density(g),
      num_connected_components |-> Cardinality(comps),
      largest_cc_fraction |-> Rat(MaxOf({Cardinality(c) : c \in comps}), n),
      is_connected |-> IF conn THEN 1 ELSE 0,
      clustering_coefficient_mean |-> clustering_mean(g),
      degree_assortativity |-> degree_assortativity_coefficient(g),
      graph_transitivity |-> transitivity(g),
      graph_entropy |-> degree_counts(g),
      graph_diameter |-> IF conn THEN Rat(diameter(g), 1) ELSE Sentinel,
      graph_radius |-> IF conn THEN Rat(radius(g), 1) ELSE Sentinel,
      avg_shortest_path_length |-> IF conn THEN average_shortest_path_length(g) ELSE Sentinel]

\* The exception, if any, raised inside the try block once the graph is
\* built: nx.is_connected raises NetworkXPointlessConcept on the null graph;
\* nx.degree_assortativity_coefficient on a graph without edges raises
\* ValueError in networkx <= 2.5 and returns NaN in later releases (the
\* repository pins no version), hence the flag.
MetricsError(g, edgeless_raises) ==
  IF number_of_nodes(g) = 0 THEN "Connectivity is undefined for the null graph."
  ELSE IF number_of_edges(g) = 0 /\ edgeless_raises THEN "max() arg is an empty sequence"
  ELSE ""

\* The exception raised by the whole try block of extract_topo_features.
TopoError(file, edgeless_raises) ==
  IF file.kind # "cif" THEN "cannot read structure"
  ELSE MetricsError(NxGraph(file), edgeless_raises)

extract_topo_features(mof_id, file, edgeless_raises) ==
  IF TopoError(file, edgeless_raises) # "" THEN FailureRecord(mof_id)
  ELSE TopoMetrics(mof_id, NxGraph(file))

IsMetricsRecord(r) == DOMAIN r # {"MOF_ID"}

(* ---------------- types of the batch state ---------------- *)
IDs == 1..NumIds
NaN == 0

\* Files the batch runs meet: the null structure and a bonded pair of atoms
\* stand for the parsable ones.
Catalog == {Cif(0, <<>>), Cif(2, <<<<0, 1>>>>)}
FileKinds == {NoStructure("absent"), NoStructure("corrupt"), NoStructure("crash")} \cup Catalog

File(present, lines) == [exists |-> present, lines |-> lines]
NoFile == File(FALSE, <<>>)

NullGraph == NxGraph(Cif(0, <<>>))

\* The batch part of the state while only one task is under study.
BatchIdle ==
  /\ stage = "none"
  /\ start_method = "fork"
  /\ n_workers = 1
  /\ cif_folder = [exists |-> FALSE, files |-> [i \in IDs |-> NoStructure("absent")]]
  /\ subset_csv = [state |-> "missing", rows |-> <<>>]
  /\ dir_creatable = TRUE
  /\ output_dir = FALSE
  /\ output_csv = NoFile
  /\ error_log = NoFile
  /\ stderr = <<>>
  /\ pc = "idle"
  /\ mof_ids_to_process = {}
  /\ tasks = {}
  /\ futures = [i \in IDs |-> "none"]
  /\ returned = [i \in IDs |-> <<>>]
  /\ results = <<>>
  /\ errors = <<>>

(* ---------------- one call of extract_topo_features ---------------- *)
\* The mof_id of the task tuple.
TopoId == MinOf(IDs)

InitTopo ==
  /\ t_file \in Structures \cup {NoStructure("absent"), NoStructure("corrupt")}
  /\ t_pc = "try"
  /\ t_g = NullGraph
  /\ t_result = <<>>
  /\ BatchIdle

\* Line 25: Structure.from_file raises; lines 70-72.
TopoParseFails ==
  /\ t_pc = "try"
  /\ t_file.kind # "cif"
  /\ t_result' = <<FailureRecord(TopoId)>>
  /\ t_pc' = "returned"
  /\ UNCHANGED <<t_file, t_g, env_vars, run_vars>>

\* Lines 25-28.
TopoBuildGraph ==
  /\ t_pc = "try"
  /\ t_file.kind = "cif"
  /\ t_g' = NxGraph(t_file)
  /\ t_pc' = "graph"
  /\ UNCHANGED <<t_file, t_result, env_vars, run_vars>>

\* Lines 30-68, or lines 70-72 when one of them raises.
TopoComputeMetrics ==
  /\ t_pc = "graph"
  /\ \E edgeless_raises \in BOOLEAN :
       t_result' = <<IF MetricsError(t_g, edgeless_raises) # ""
                     THEN FailureRecord(TopoId) ELSE TopoMetrics(TopoId, t_g)>>
  /\ t_pc' = "returned"
  /\ UNCHANGED <<t_file, t_g, env_vars, run_vars>>

NextTopo == TopoParseFails \/ TopoBuildGraph \/ TopoComputeMetrics

SpecTopo == InitTopo /\ [][NextTopo]_vars

(* ======================================================================= *)
(* The batch stages                                                        *)
(* ======================================================================= *)
Stages == {"chemical", "topological", "linker_metal"}
StartMethods == {"fork", "spawn"}

TopoIdle ==
  /\ t_file = NoStructure("absent")
  /\ t_pc = "idle"
  /\ t_g = NullGraph
  /\ t_result = <<>>

Init ==
  /\ TopoIdle
  /\ stage \in Stages
  /\ start_method \in StartMethods
  /\ n_workers \in 1..MaxWorkers
  /\ cif_folder \in {[exists |-> TRUE, files |-> f] : f \in [IDs -> FileKinds]}
                    \cup {[exists |-> FALSE, files |-> [i \in IDs |-> NoStructure("absent")]]}
  /\ subset_csv \in {[state |-> "missing", rows |-> <<>>], [state |-> "unreadable", rows |-> <<>>]}
                    \cup {[state |-> "ok", rows |-> r] : r \in SeqsUpTo(IDs \cup {NaN}, MaxRows)}
  \* the first stage of the pipeline runs before its own table exists
  /\ stage = "chemical" => subset_csv.state = "missing"
  /\ dir_creatable \in BOOLEAN
  /\ output_dir = FALSE
  /\ output_csv = NoFile
  /\ error_log = NoFile
  /\ stderr = <<>>
  /\ pc = "start"
  /\ mof_ids_to_process = {}
  /\ tasks = {}
  /\ futures = [i \in IDs |-> "none"]
  /\ returned = [i \in IDs |-> <<>>]
  /\ results = <<>>
  /\ errors = <<>>

\* set(subset_df["MOF_ID"].dropna().astype(str)): empty cells go, repeated
\* IDs collapse.
ReadIds(csv) == {csv.rows[k] : k \in DOMAIN csv.rows} \ {NaN}

\* A task list that takes every file of the folder.
BuildTasks_AllFiles(ids, folder) == {id \in IDs : folder.files[id].kind # "absent"}

\* The tasks list: the IDs read whose <ID>.cif exists.
BuildTasks(ids, folder) == {id \in ids : folder.files[id].kind # "absent"}

\* os.listdir(cif_folder) filtered on ".cif" (fewer than 15000 hMOF files).
ListCifs(folder) == {id \in IDs : folder.files[id].kind # "absent"}

UsesSubset == stage \in {"topological", "linker_metal"}

\* logging.basicConfig(filename=error_log, ...) opens the file for append,
\* creating it; only the topological stage configures logging.
LogOpened == IF stage = "topological" THEN File(TRUE, error_log.lines) ELSE error_log

Submit(ids) ==
  /\ tasks' = ids
  /\ futures' = [i \in IDs |-> IF i \in ids THEN "pending" ELSE "none"]
  /\ pc' = "collect"

\* 04:90-93, 05:76-79: the upstream table does not exist.
PrepareInputMissing ==
  /\ pc = "start" /\ UsesSubset
  /\ subset_csv.state = "missing"
  /\ pc' = "input_missing"
  /\ UNCHANGED <<topo_vars, env_vars, output_dir, output_csv, error_log, stderr,
                 mof_ids_to_process, tasks, futures, returned, results, errors>>

\* 03:99-102: the CIF folder does not exist.
PrepareNoCifFolder ==
  /\ pc = "start" /\ stage = "chemical"
  /\ ~cif_folder.exists
  /\ pc' = "input_missing"
  /\ UNCHANGED <<topo_vars, env_vars, output_dir, output_csv, error_log, stderr,
                 mof_ids_to_process, tasks, futures, returned, results, errors>>

PassedExistsCheck ==
  IF stage = "chemical" THEN cif_folder.exists ELSE subset_csv.state # "missing"

\* 03:104, 04:95, 05:81: os.makedirs raises.
PrepareMakedirsFails ==
  /\ pc = "start" /\ PassedExistsCheck
  /\ ~dir_creatable
  /\ pc' = "raised_prepare"
  /\ UNCHANGED <<topo_vars, env_vars, output_dir, output_csv, error_log, stderr,
                 mof_ids_to_process, tasks, futures, returned, results, errors>>

\* 04:95-99, 05:81-84: the directory and (04) the log are set up, then
\* pd.read_csv raises.
PrepareReadFails ==
  /\ pc = "start" /\ UsesSubset
  /\ subset_csv.state = "unreadable"
  /\ dir_creatable
  /\ output_dir' = TRUE
  /\ error_log' = LogOpened
  /\ pc' = "raised_prepare"
  /\ UNCHANGED <<topo_vars, env_vars, output_csv, stderr,
                 mof_ids_to_process, tasks, futures, returned, results, errors>>

\* 04:95-113, 05:81-98: set up, read the IDs, build and submit the tasks.
PrepareSubset ==
  /\ pc = "start" /\ UsesSubset
  /\ subset_csv.state = "ok"
  /\ dir_creatable
  /\ output_dir' = TRUE
  /\ error_log' = LogOpened
  /\ mof_ids_to_process' = ReadIds(subset_csv)
  /\ Submit(BuildTasks(ReadIds(subset_csv), cif_folder))
  /\ UNCHANGED <<topo_vars, env_vars, output_csv, stderr, returned, results, errors>>

\* 03:104-120: list the folder and submit one task per file.
PrepareChemical ==
  /\ pc = "start" /\ stage = "chemical"
  /\ cif_folder.exists
  /\ dir_creatable
  /\ output_dir' = TRUE
  /\ Submit(ListCifs(cif_folder))
  /\ UNCHANGED <<topo_vars, env_vars, output_csv, error_log, stderr,
                 mof_ids_to_process, returned, results, errors>>

(* ---------------- the tasks ---------------- *)
Cell(v) == <<v>>
NaNCell == <<>>

\* process_cif: (features, None) or (None, (filename, reason)).
process_cif(mof_id, file) ==
  IF file.kind = "cif"
  THEN [result |-> <<[MOF_ID |-> mof_id, num_atoms |-> file.natoms]>>, error |-> <<>>]
  ELSE [result |-> <<>>, error |-> <<<<mof_id, "cannot read structure">>>>]

\* extract_linker_metal_features: both branches return a full dict.
extract_linker_metal_features(mof_id, file, has_metal) ==
  IF file.kind = "cif"
  THEN [MOF_ID |-> mof_id,
        linker_atom_fraction |-> IF file.natoms > 0 THEN Cell("value") ELSE NaNCell,
        metal_coord_number_mean |-> IF file.natoms > 0 /\ has_metal THEN Cell("value") ELSE NaNCell,
        metal_coord_number_std |-> IF file.natoms > 0 /\ has_metal THEN Cell("value") ELSE NaNCell]
  ELSE [MOF_ID |-> mof_id, linker_atom_fraction |-> NaNCell,
        metal_coord_number_mean |-> NaNCell, metal_coord_number_std |-> NaNCell]

Running == {i \in IDs : futures[i] = "running"}

\* A free worker of the pool takes a submitted task.
StartTask(id) ==
  /\ pc = "collect"
  /\ futures[id] = "pending"
  /\ Cardinality(Running) < n_workers
  /\ futures' = [futures EXCEPT ![id] = "running"]
  /\ UNCHANGED <<topo_vars, env_vars, output_dir, output_csv, error_log, stderr, pc,
                 mof_ids_to_process, tasks, returned, results, errors>>

\* logging.error in the worker (04:71): a forked worker inherits the file
\* handler of basicConfig; a spawned one has no handler and the line goes
\* to the console.
WorkerLog(id, reason) ==
  IF reason = "" THEN UNCHANGED <<error_log, stderr>>
  ELSE IF start_method = "fork"
       THEN /\ error_log' = File(error_log.exists, Append(error_log.lines, <<id, reason>>))
            /\ UNCHANGED stderr
       ELSE /\ stderr' = Append(stderr, <<id, reason>>)
            /\ UNCHANGED error_log

\* The task function runs to its return in a worker.
FinishTask(id) ==
  /\ pc = "collect"
  /\ futures[id] = "running"
  /\ cif_folder.files[id].kind # "crash"
  /\ \/ /\ stage = "topological"
        /\ \E edgeless_raises \in BOOLEAN :
             /\ returned' = [returned EXCEPT ![id] =
                   <<extract_topo_features(id, cif_folder.files[id], edgeless_raises)>>]
             /\ WorkerLog(id, TopoError(cif_folder.files[id], edgeless_raises))
     \/ /\ stage = "chemical"
        /\ returned' = [returned EXCEPT ![id] = <<process_cif(id, cif_folder.files[id])>>]
        /\ UNCHANGED <<error_log, stderr>>
     \/ /\ stage = "linker_metal"
        /\ \E has_metal \in BOOLEAN :
             returned' = [returned EXCEPT ![id] =
                   <<extract_linker_metal_features(id, cif_folder.files[id], has_metal)>>]
        /\ UNCHANGED <<error_log, stderr>>
  /\ futures' = [futures EXCEPT ![id] = "finished"]
  /\ UNCHANGED <<topo_vars, env_vars, output_dir, output_csv, pc,
                 mof_ids_to_process, tasks, results, errors>>

\* The worker process dies in the task: the pool is broken and every future
\* not yet finished gets BrokenProcessPool.
WorkerDies(id) ==
  /\ pc = "collect"
  /\ futures[id] = "running"
  /\ cif_folder.files[id].kind = "crash"
  /\ futures' = [i \in IDs |-> IF futures[i] \in {"pending", "running"} THEN "broken"
                                ELSE futures[i]]
  /\ UNCHANGED <<topo_vars, env_vars, output_dir, output_csv, error_log, stderr, pc,
                 mof_ids_to_process, tasks, returned, results, errors>>

(* ---------------- collection and saving ---------------- *)
\* One turn of the as_completed loop on a future holding a value
\* (03:121-126, 04:114-117, 05:99-102). Every dict returned is non-empty.
Collect(id) ==
  /\ pc = "collect"
  /\ futures[id] = "finished"
  /\ IF stage = "chemical"
     THEN /\ results' = results \o returned[id][1].result
          /\ errors' = errors \o returned[id][1].error
     ELSE /\ results' = Append(results, returned[id][1])
          /\ UNCHANGED errors
  /\ futures' = [futures EXCEPT ![id] = "collected"]
  /\ UNCHANGED <<topo_vars, env_vars, output_dir, output_csv, error_log, stderr, pc,
                 mof_ids_to_process, tasks, returned>>

\* future.result() re-raises the pool's exception; nothing catches it.
CollectRaises(id) ==
  /\ pc = "collect"
  /\ futures[id] = "broken"
  /\ pc' = "raised_collect"
  /\ UNCHANGED <<topo_vars, env_vars, output_dir, output_csv, error_log, stderr,
                 mof_ids_to_process, tasks, futures, returned, results, errors>>

\* An end-of-loop test that only looks for tasks still running.
AllCollected_NoneRunning == \A id \in tasks : futures[id] \notin {"running", "finished"}

\* The as_completed loop and the with block have ended: every future was
\* yielded and its value taken.
AllCollected == \A id \in tasks : futures[id] = "collected"

\* A table that keeps only the complete records.
DataFrame_CompleteOnly(recs) ==
  LET kept == SelectSeq(recs, LAMBDA r : DOMAIN r # {"MOF_ID"})
      columns == UNION {DOMAIN kept[k] : k \in DOMAIN kept}
  IN [k \in DOMAIN kept |->
        [c \in columns |-> IF c \in DOMAIN kept[k] THEN Cell(kept[k][c]) ELSE NaNCell]]

\* pd.DataFrame(results): one row per dict, the columns are the union of the
\* keys, a key a dict lacks is NaN in its row.
DataFrame(recs) ==
  LET columns == UNION {DOMAIN recs[k] : k \in DOMAIN recs}
  IN [k \in DOMAIN recs |->
        [c \in columns |-> IF c \in DOMAIN recs[k] THEN Cell(recs[k][c]) ELSE NaNCell]]

\* 03:129-131, 04:120-122, 05:105-107: nothing collected, nothing written.
SaveNothing ==
  /\ pc = "collect" /\ AllCollected
  /\ results = <<>>
  /\ pc' = "no_results"
  /\ UNCHANGED <<topo_vars, env_vars, output_dir, output_csv, error_log, stderr,
                 mof_ids_to_process, tasks, futures, returned, results, errors>>

\* 03:133-142, 04:124-130, 05:109-112: the table is written; the chemical
\* stage then writes its errors list to its log.
SaveResults ==
  /\ pc = "collect" /\ AllCollected
  /\ results # <<>>
  /\ output_csv' = File(TRUE, DataFrame(results))
  /\ error_log' = IF stage = "chemical" /\ errors # <<>> THEN File(TRUE, errors) ELSE error_log
  /\ pc' = "done"
  /\ UNCHANGED <<topo_vars, env_vars, output_dir, stderr,
                 mof_ids_to_process, tasks, futures, returned, results, errors>>

Next ==
  \/ PrepareInputMissing
  \/ PrepareNoCifFolder
  \/ PrepareMakedirsFails
  \/ PrepareReadFails
  \/ PrepareSubset
  \/ PrepareChemical
  \/ \E id \in IDs : StartTask(id)
  \/ \E id \in IDs : FinishTask(id)
  \/ \E id \in IDs : WorkerDies(id)
  \/ \E id \in IDs : Collect(id)
  \/ \E id \in IDs : CollectRaises(id)
  \/ SaveNothing
  \/ SaveResults

Spec == Init /\ [][Next]_vars

(* ======================================================================= *)
(* Properties of one call of extract_topo_features (SpecTopo)              *)
(* ======================================================================= *)
TopoReturned == t_pc = "returned" /\ t_file.kind = "cif"
TopoRecord == t_result[1]

\* Distances stated without the breadth-first search: a walk of k steps.
RECURSIVE Walk(_, _, _, _)
Walk(g, u, v, k) ==
  IF k = 0 THEN u = v ELSE \E w \in g.adj[u] : Walk(g, w, v, k - 1)

Reaches(g, u, v) == \E k \in 0..number_of_nodes(g) : Walk(g, u, v, k)
Connected(g) == g.nodes # {} /\ \A u \in g.nodes, v \in g.nodes : Reaches(g, u, v)
Dist(g, u, v) == MinOf({k \in 0..number_of_nodes(g) : Walk(g, u, v, k)})
Ecc(g, u) == MaxOf({Dist(g, u, v) : v \in g.nodes})
TotalDist(g) ==
  LET P == {q \in g.nodes \X g.nodes : q[1] # q[2]}
  IN SumOver(P, [q \in P |-> Dist(g, q[1], q[2])])

DistanceFields(r) == <<r.graph_diameter, r.graph_radius, r.avg_shortest_path_length>>
AllSentinel(r) == \A i \in 1..3 : DistanceFields(r)[i] = Sentinel
NoneSentinel(r) == \A i \in 1..3 : DistanceFields(r)[i].num >= 0 /\ DistanceFields(r)[i].den > 0

DistancesAreEccentricities(r, g) ==
  /\ r.graph_diameter = Rat(MaxOf({Ecc(g, u) : u \in g.nodes}), 1)
  /\ r.graph_radius = Rat(MinOf({Ecc(g, u) : u \in g.nodes}), 1)
  /\ r.avg_shortest_path_length.num * number_of_nodes(g) * (number_of_nodes(g) - 1)
       = TotalDist(g) * r.avg_shortest_path_length.den

C5_EmptyStructureYieldsMetrics ==
  (TopoReturned /\ t_file.natoms = 0) =>
     /\ IsMetricsRecord(TopoRecord)
     /\ TopoRecord.avg_node_connectivity.num = 0
     /\ TopoRecord.graph_density.num = 0
     /\ TopoRecord.is_connected = 0
     /\ AllSentinel(TopoRecord)

\* C6: the graph the descriptors are computed on has exactly N nodes, no
\* self-loop and at most one edge per unordered pair, whatever bonds the
\* strategy reports; node degrees count no self-loop.
C6_CanonicalSimpleGraph ==
  (t_pc \in {"graph", "returned"} /\ t_file.kind = "cif") =>
     /\ number_of_nodes(t_g) = t_file.natoms
     /\ \A n \in t_g.nodes : n \notin t_g.adj[n]
     /\ \A n \in t_g.nodes, m \in t_g.nodes : m \in t_g.adj[n] <=> n \in t_g.adj[m]
     /\ \A n \in t_g.nodes : Degree(t_g, n) = Cardinality(t_g.adj[n] \ {n})

(* ======================================================================= *)
(* Properties of the batch runs (Spec)                                     *)
(* ======================================================================= *)
Topological == stage = "topological"
Finished == pc \in {"done", "no_results"}

RecordsOf(id) == {k \in DOMAIN results : results[k].MOF_ID = id}
RowsOf(id) == {k \in DOMAIN output_csv.lines : output_csv.lines[k].MOF_ID = Cell(id)}

\* The validated-ID set as the upstream table states it.
ValidatedIds ==
  IF subset_csv.state = "ok"
  THEN {i \in IDs : \E k \in 1..Len(subset_csv.rows) : subset_csv.rows[k] = i}
  ELSE {}

\* C1: when a run of the topological stage has finished its tasks, every ID
\* read from the validated-ID table has exactly one record in the results.
C1_OneOutcomePerRequestedId ==
  (Topological /\ Finished) =>
     \A id \in ValidatedIds : Cardinality(RecordsOf(id)) = 1

\* C2: no failure inside a task, the death of its worker included, aborts the
\* topological batch: the collection loop never ends in an exception, and a
\* finished run holds one record for every submitted task.
C2_TaskFailureNeverAbortsBatch ==
  Topological =>
     /\ pc # "raised_collect"
     /\ Finished => \A id \in tasks : Cardinality(RecordsOf(id)) = 1

\* One requested ID has a corrupt or missing file, every other requested ID
\* has a file holding a structure with atoms.
BadFile(id) == cif_folder.files[id].kind \in {"absent", "corrupt"}
GoodFile(id) == cif_folder.files[id].kind = "cif" /\ cif_folder.files[id].natoms > 0
OneBadAmongValid(bad) ==
  /\ bad \in ValidatedIds
  /\ BadFile(bad)
  /\ ValidatedIds \ {bad} # {}
  /\ \A id \in ValidatedIds \ {bad} : GoodFile(id)

\* C3: with exactly one corrupt or missing file among N requested IDs, the
\* finished run holds exactly one FailureRecord, for that ID, and N-1
\* MetricsRecords, each the one its own file yields.
C3_OneBadFileOneFailureRecord ==
  \A bad \in IDs :
    (Topological /\ Finished /\ OneBadAmongValid(bad)) =>
       /\ Len(results) = Cardinality(ValidatedIds)
       /\ \E k \in DOMAIN results : results[k] = FailureRecord(bad)
       /\ \A id \in ValidatedIds \ {bad} :
            \E k \in DOMAIN results :
               results[k] = TopoMetrics(id, NxGraph(cif_folder.files[id]))

DescriptorColumns ==
  {"avg_node_connectivity", "graph_density", "num_connected_components",
   "largest_cc_fraction", "is_connected", "clustering_coefficient_mean",
   "degree_assortativity", "graph_transitivity", "graph_entropy",
   "graph_diameter", "graph_radius", "avg_shortest_path_length"}

HasAllDescriptors(row) ==
  /\ DescriptorColumns \subseteq DOMAIN row
  /\ \A c \in DescriptorColumns : row[c] # NaNCell

HasNoDescriptor(row) ==
  \A c \in DescriptorColumns : c \in DOMAIN row => row[c] = NaNCell

TaskSucceeded(id) == returned[id] # <<>> /\ IsMetricsRecord(returned[id][1])

\* C7 (as claimed): the table written by the topological stage has exactly
\* one row per successfully processed ID, none for an ID whose task failed,
\* and every row carries the twelve descriptor columns.
C7_TableHoldsOnlySuccessfulIds ==
  (Topological /\ output_csv.exists) =>
     /\ \A id \in IDs : Cardinality(RowsOf(id)) = (IF TaskSucceeded(id) THEN 1 ELSE 0)
     /\ \A k \in DOMAIN output_csv.lines : HasAllDescriptors(output_csv.lines[k])

\* C7 (amended): the table written by the topological stage has exactly one
\* row per submitted task; the row of a successfully processed ID carries the
\* twelve descriptor columns, the row of an ID whose task failed carries its
\* MOF_ID and no descriptor value.
C7_TableHoldsOneRowPerTask ==
  (Topological /\ output_csv.exists) =>
     /\ pc = "done"
     /\ Len(output_csv.lines) = Cardinality(tasks)
     /\ \A id \in tasks :
          /\ Cardinality(RowsOf(id)) = 1
          /\ \A k \in RowsOf(id) :
               IF TaskSucceeded(id) THEN HasAllDescriptors(output_csv.lines[k])
               ELSE HasNoDescriptor(output_csv.lines[k])
     /\ \A id \in IDs \ tasks : RowsOf(id) = {}

\* C7 witness: a table was written after one task succeeded and one failed.
C7_Witness ==
  /\ Topological /\ output_csv.exists
  /\ \E a \in tasks, b \in tasks : TaskSucceeded(a) /\ ~TaskSucceeded(b)

\* A task that ended in the failure branch of its task function.
TaskFailed(id) ==
  /\ id \in tasks
  /\ returned[id] # <<>>
  /\ IF Topological THEN ~IsMetricsRecord(returned[id][1])
     ELSE cif_folder.files[id].kind # "cif"

Logged(id) ==
  /\ error_log.exists
  /\ \E k \in DOMAIN error_log.lines : error_log.lines[k][1] = id

\* C8: at the end of a run of any of the three batch stages, every failed
\* task has a line with its ID in the stage's error log, also when every
\* task failed.
C8_EveryFailureIsLogged ==
  Finished => \A id \in IDs : TaskFailed(id) => Logged(id)

\* C9: a topological run that aborts on a fatal precondition (upstream table
\* missing or unreadable, output directory not creatable) has submitted no
\* task and has created neither the output table nor the error log.
C9_FatalAbortWritesNothing ==
  (Topological /\ pc \in {"input_missing", "raised_prepare"}) =>
     /\ tasks = {}
     /\ ~output_csv.exists
     /\ ~error_log.exists

\* C10: in the stages that read the validated-ID table, an ID that is not in
\* that table never gets a task, a returned record, a collected record or a
\* table row, whether or not its structure file exists.
C10_OnlyValidatedIdsProcessed ==
  (stage \in {"topological", "linker_metal"}) =>
     \A id \in IDs \ ValidatedIds :
        /\ id \notin tasks
        /\ futures[id] = "none"
        /\ returned[id] = <<>>
        /\ RecordsOf(id) = {}
        /\ RowsOf(id) = {}

\* C10 witness: a table was written while the structure file of an ID outside
\* the validated set was sitting in the folder.
C10_Witness ==
  /\ Topological /\ pc = "done"
  /\ \E id \in IDs \ ValidatedIds : cif_folder.files[id].kind = "cif"

\* C11: the error log and the output table are written by the orchestrator
\* only, once, at the end of the run: their contents never change while a
\* task is running, so no worker ever appends to them.
C11_OnlyOrchestratorWritesAtEnd ==
  [][(error_log'.lines # error_log.lines \/ output_csv'.lines # output_csv.lines)
        => (Running = {} /\ pc = "collect" /\ pc' = "done")]_vars

\* C12: the output table exists only once every submitted task has finished
\* and its value has been collected by the orchestrator; no table exists
\* while a task is pending or running, nor after the collection was aborted.
C12_TableOnlyAfterAllCollected ==
  /\ output_csv.exists =>
       /\ pc = "done"
       /\ \A id \in tasks : futures[id] = "collected" /\ returned[id] # <<>>
       /\ Len(output_csv.lines) = Len(results)
       /\ stage # "chemical" => Len(results) = Cardinality(tasks)
  /\ pc = "raised_collect" => ~output_csv.exists

\* C12 witness: a table was written after two tasks had run and been
\* collected.
C12_Witness ==
  /\ output_csv.exists
  /\ Cardinality(tasks) = 2
  /\ Len(output_csv.lines) = 2

====
